---- MODULE Spec2Model ----
(***************************************************************************)
(* FIFOSet<T> (src/src/lib.rs): a FIFO queue with unique values, kept as a *)
(* VecDeque<T> (deq) and a HashSet<T> (set).                               *)
(*                                                                         *)
(* The struct is the record [deq |-> sequence, set |-> set]; the methods   *)
(* are operators over that record, written from the method bodies; every   *)
(* action is one call of one method.  Option<T> is a sequence of length at *)
(* most one: None is << >>, Some(v) is <<v>>.  A panic leaves the fields   *)
(* as they were (the bounds assertions of VecDeque come before any write)  *)
(* and is recorded in `panicked`.  The capacity of deq is the variable cap; *)
(* the standard library promises only "at least what was asked for", so    *)
(* every allocation picks a capacity among those allowed.  The capacity of *)
(* the HashSet is read by no method and is not modelled.                   *)
(***************************************************************************)
EXTENDS Integers, Sequences, FiniteSets, TLC

VARIABLES
    deq,        \* FIFOSet.deq: the VecDeque, front first
    set,        \* FIFOSet.set: the HashSet
    cap,        \* capacity of deq (what capacity() returns)
    op,         \* name of the last method called
    arg,        \* its arguments
    ret,        \* its return value
    panicked,   \* whether it panicked instead of returning
    pushed,     \* PushPop scenario: arguments of the push calls so far
    taken,      \* PushPop scenario: values returned by pop/remove so far
    phase,      \* PushPop scenario: "idle", "push", "pop", "mixed"
    live,       \* History: values pushed and not popped, removed or cleared since
    before,     \* History: pairs <<a, b>> of live values, a inserted before b
    gone,       \* History: values that left the queue and were not pushed since
    readmit,    \* History: the last call was a push of a value in gone
    cleared,    \* History: the values the last call, a clear, took out
    twin        \* Twin: a second queue, made by new(), given the same calls

logs     == <<pushed, taken, phase>>
history  == <<live, before, gone, readmit, cleared>>
scenario == <<logs, history, twin>>
vars == <<deq, set, cap, op, arg, ret, panicked, scenario>>

\* ---------------------------------------------------------------- bounds
MaxVal == 3
MaxSrc == 2

Values  == 1..MaxVal          \* the element type T
Indices == 0..MaxVal          \* usize arguments; MaxVal is out of bounds in every state
MaxCap  == MaxVal             \* largest capacity the allocator hands out
Hints   == 0..MaxCap          \* capacity hints
MaxPush == MaxVal + 1         \* push calls of one PushPop scenario

RECURSIVE SeqsUpTo(_, _)
SeqsUpTo(S, n) ==
    IF n = 0 THEN {<< >>}
    ELSE LET shorter == SeqsUpTo(S, n - 1)
         IN  shorter \cup {Append(s, x) : s \in shorter, x \in S}

\* the source [5, 5, 7, 5, 9] of the documented scenario, its values renamed 1, 2, 3
CollapseSource == <<1, 1, 2, 1, 3>>

\* finite iterators given to extend / from_iter
Sources == SeqsUpTo(Values, MaxSrc) \cup {CollapseSource}

\* ------------------------------------------------------ Option and unit
None    == << >>
Some(v) == <<v>>
Unit    == << >>

\* --------------------------------------------- VecDeque / HashSet calls
Elems(s) == {s[k] : k \in 1..Len(s)}

\* VecDeque::remove(index) on the sequence: the sequence without position index (0-based)
Without(s, index) == SubSeq(s, 1, index) \o SubSeq(s, index + 2, Len(s))

\* VecDeque::swap(i, j) on the sequence, both in bounds (0-based)
Swapped(s, i, j) ==
    [k \in 1..Len(s) |-> IF k = i + 1 THEN s[j + 1] ELSE IF k = j + 1 THEN s[i + 1] ELSE s[k]]

\* capacities a container may have once it must hold `need` elements: it
\* keeps its allocation when that is enough, and otherwise gets at least `need`
Grow(c, need) == IF need <= c THEN {c} ELSE need..MaxCap

\* what a call hands back: the struct after it, the value returned, or a panic
Ok(q, r)  == [deq |-> q.deq, set |-> q.set, ret |-> r, panic |-> FALSE]
Panic(q)  == [deq |-> q.deq, set |-> q.set, ret |-> Unit, panic |-> TRUE]

self == [deq |-> deq, set |-> set]

\* ------------------------------------------------------ FIFOSet methods
new == [deq |-> << >>, set |-> {}]

\* with_capacity that takes the hint for a length and fills the queue
with_capacity_filled(hint) ==
    [deq |-> [k \in 1..hint |-> k], set |-> 1..hint]

with_capacity(hint) == [deq |-> << >>, set |-> {}]

get(q, index) == IF index < Len(q.deq) THEN Some(q.deq[index + 1]) ELSE None

\* swap that moves the element at i to position j and shifts those between
swap_move(q, i, j) ==
    IF i < Len(q.deq) /\ j < Len(q.deq)
    THEN LET rest == Without(q.deq, i)
         IN  Ok([q EXCEPT !.deq = SubSeq(rest, 1, j) \o <<q.deq[i + 1]>>
                                   \o SubSeq(rest, j + 1, Len(rest))], Unit)
    ELSE Panic(q)

swap(q, i, j) ==
    IF i < Len(q.deq) /\ j < Len(q.deq)
    THEN Ok([q EXCEPT !.deq = Swapped(q.deq, i, j)], Unit)
    ELSE Panic(q)

iter(q) == q.deq

len(q) == Len(q.deq)

is_empty(q) == Len(q.deq) = 0

\* RangeBounds<usize>: each bound is Included(n), Excluded(n) or Unbounded,
\* written as the pair of its variant and its number
Included(n) == <<"Included", n>>
Excluded(n) == <<"Excluded", n>>
Unbounded   == <<"Unbounded", 0>>
\* a range is the pair of its two bounds
start_bound(r) == r[1]
end_bound(r)   == r[2]
\* the ranges a caller writes: a.., ..,  ..b, ..=b, a..b, a..=b
StartBounds == {Unbounded} \cup {Included(n) : n \in Indices}
EndBounds   == {Unbounded} \cup {Included(n) : n \in Indices} \cup {Excluded(n) : n \in Indices}

range_start(b) ==
    IF b[1] = "Included" THEN b[2] ELSE IF b[1] = "Excluded" THEN b[2] + 1 ELSE 0

range_end(b, length) ==
    IF b[1] = "Included" THEN b[2] + 1 ELSE IF b[1] = "Excluded" THEN b[2] ELSE length

\* range that clamps its bounds to the length, as a lenient slice would
range_clamped(q, r) ==
    LET n     == Len(q.deq)
        end   == IF range_end(end_bound(r), n) > n THEN n ELSE range_end(end_bound(r), n)
        start == IF range_start(start_bound(r)) > end THEN end ELSE range_start(start_bound(r))
    IN  Ok(q, SubSeq(q.deq, start + 1, end))

range(q, r) ==
    LET start == range_start(start_bound(r))
        end   == range_end(end_bound(r), Len(q.deq))
    IN  IF start > end \/ end > Len(q.deq)
        THEN Panic(q)
        ELSE Ok(q, SubSeq(q.deq, start + 1, end))

\* clear that forgets set.clear()
clear_deq_only(q) == Ok([deq |-> << >>, set |-> q.set], Unit)

clear(q) == Ok([deq |-> << >>, set |-> {}], Unit)

contains(q, x) == x \in q.set

\* peek that reads the back of the deque
peek_back(q) == IF q.deq = << >> THEN None ELSE Some(q.deq[Len(q.deq)])

peek(q) == IF q.deq = << >> THEN None ELSE Some(Head(q.deq))

\* pop that forgets set.remove(value)
pop_keeps_member(q) ==
    IF q.deq = << >> THEN Ok(q, None)
    ELSE Ok([deq |-> Tail(q.deq), set |-> q.set], Some(Head(q.deq)))

\* pop that takes from the back (pop_back for pop_front)
pop_back(q) ==
    IF q.deq = << >> THEN Ok(q, None)
    ELSE Ok([deq |-> SubSeq(q.deq, 1, Len(q.deq) - 1),
             set |-> q.set \ {q.deq[Len(q.deq)]}], Some(q.deq[Len(q.deq)]))

\* pop that unwraps the front element
pop_unwrap(q) ==
    IF q.deq = << >> THEN Panic(q)
    ELSE Ok([deq |-> Tail(q.deq), set |-> q.set \ {Head(q.deq)}], Some(Head(q.deq)))

pop(q) ==
    LET next == IF q.deq = << >> THEN None ELSE Some(Head(q.deq))
        rest == IF q.deq = << >> THEN q.deq ELSE Tail(q.deq)
    IN  IF next # None
        THEN Ok([deq |-> rest, set |-> q.set \ {next[1]}], next)
        ELSE Ok([deq |-> rest, set |-> q.set], next)

\* remove through swap_remove_back: the last element takes the removed one's place
remove_swap_back(q, index) ==
    IF index < Len(q.deq)
    THEN Ok([deq |-> SubSeq(Swapped(q.deq, index, Len(q.deq) - 1), 1, Len(q.deq) - 1),
             set |-> q.set \ {q.deq[index + 1]}], Some(q.deq[index + 1]))
    ELSE Ok(q, None)

\* remove that panics out of bounds, as Vec::remove does
remove_strict(q, index) ==
    IF index < Len(q.deq)
    THEN Ok([deq |-> Without(q.deq, index), set |-> q.set \ {q.deq[index + 1]}],
            Some(q.deq[index + 1]))
    ELSE Panic(q)

remove(q, index) ==
    LET removed == IF index < Len(q.deq) THEN Some(q.deq[index + 1]) ELSE None
        rest    == IF index < Len(q.deq) THEN Without(q.deq, index) ELSE q.deq
    IN  IF removed # None
        THEN Ok([deq |-> rest, set |-> q.set \ {removed[1]}], removed)
        ELSE Ok([deq |-> rest, set |-> q.set], removed)

\* push that ignores what set.insert returns
push_unchecked(q, element) ==
    Ok([deq |-> Append(q.deq, element), set |-> q.set \cup {element}], Unit)

\* push that tests contains and appends, but never inserts into the set
push_forgets_member(q, element) ==
    IF element \notin q.set
    THEN Ok([deq |-> Append(q.deq, element), set |-> q.set], Unit)
    ELSE Ok(q, Unit)

\* push that moves a value already present to the back
push_refresh(q, element) ==
    IF element \notin q.set
    THEN Ok([deq |-> Append(q.deq, element), set |-> q.set \cup {element}], Unit)
    ELSE Ok([deq |-> Append(SelectSeq(q.deq, LAMBDA x : x # element), element),
             set |-> q.set], Unit)

push(q, element) ==
    IF element \notin q.set
    THEN Ok([deq |-> Append(q.deq, element), set |-> q.set \cup {element}], Unit)
    ELSE Ok(q, Unit)

\* index that clamps to the last element instead of panicking
index_clamped(q, idx) ==
    IF q.deq = << >> THEN Panic(q)
    ELSE IF idx < Len(q.deq) THEN Ok(q, q.deq[idx + 1]) ELSE Ok(q, q.deq[Len(q.deq)])

index(q, idx) == IF idx < Len(q.deq) THEN Ok(q, q.deq[idx + 1]) ELSE Panic(q)

\* extend that walks the iterator from its back
RECURSIVE extend_rev(_, _)
extend_rev(q, items) ==
    IF items = << >> THEN Ok(q, Unit)
    ELSE extend_rev(push(q, items[Len(items)]), SubSeq(items, 1, Len(items) - 1))

RECURSIVE extend(_, _)
extend(q, items) ==
    IF items = << >> THEN Ok(q, Unit)
    ELSE extend(push(q, Head(items)), Tail(items))

from_iter(items, lower) == extend(with_capacity(lower), items)

\* VecDeque::capacity after reserve(additional)
reserve(c, length, additional) == Grow(c, length + additional)

capacity(c) == c

\* ------------------------------------------------------------- actions
\* one call that returned `out` (or panicked), leaving the capacity in `caps`
Call(name, args, out, caps) ==
    /\ op' = name
    /\ arg' = args
    /\ deq' = out.deq
    /\ set' = out.set
    /\ ret' = out.ret
    /\ panicked' = out.panic
    /\ cap' \in caps

\* the queue as new() or with_capacity(hint) returns it
InitQueue ==
    /\ \/ /\ op = "new" /\ arg = << >>
          /\ deq = new.deq /\ set = new.set
          /\ cap \in 0..MaxCap
       \/ \E hint \in Hints :
             /\ op = "with_capacity" /\ arg = <<hint>>
             /\ deq = with_capacity(hint).deq /\ set = with_capacity(hint).set
             /\ cap \in hint..MaxCap
    /\ ret = Unit
    /\ panicked = FALSE

NoLogs    == pushed = << >> /\ taken = << >> /\ phase = "idle"
NoHistory == live = {} /\ before = {} /\ gone = {} /\ readmit = FALSE /\ cleared = {}
NoTwin    == twin = << >>

Init ==
    /\ InitQueue
    /\ NoLogs
    /\ NoHistory
    /\ NoTwin

DoGet(i)      == Call("get", <<i>>, Ok(self, get(self, i)), {cap})
DoSwap(i, j)  == Call("swap", <<i, j>>, swap(self, i, j), {cap})
DoCapacity    == Call("capacity", << >>, Ok(self, capacity(cap)), {cap})
DoReserve(n)  == /\ Len(deq) + n <= MaxCap
                 /\ Call("reserve", <<n>>, Ok(self, Unit), reserve(cap, Len(deq), n))
DoIter        == Call("iter", << >>, Ok(self, iter(self)), {cap})
DoLen         == Call("len", << >>, Ok(self, len(self)), {cap})
DoIsEmpty     == Call("is_empty", << >>, Ok(self, is_empty(self)), {cap})
DoRange(r)    == Call("range", <<r>>, range(self, r), {cap})
DoClear       == Call("clear", << >>, clear(self), {cap})
DoContains(x) == Call("contains", <<x>>, Ok(self, contains(self, x)), {cap})
DoPeek        == Call("peek", << >>, Ok(self, peek(self)), {cap})
DoPop         == Call("pop", << >>, pop(self), {cap})
DoRemove(i)   == Call("remove", <<i>>, remove(self, i), {cap})
DoPush(v)     == LET out == push(self, v)
                 IN  Call("push", <<v>>, out, Grow(cap, Len(out.deq)))
DoIndex(i)    == Call("index", <<i>>, index(self, i), {cap})
DoExtend(src) == LET out == extend(self, src)
                 IN  Call("extend", <<src>>, out, Grow(cap, Len(out.deq)))
\* from_iter allocates for the lower bound of the iterator's size_hint, which
\* lies between 0 and the iterator's length, and then extends
FromIterCaps(src, need) ==
    UNION {Grow(c0, need) : c0 \in UNION {lower..MaxCap : lower \in 0..Len(src)}}
DoFromIter(src) ==
    LET out == from_iter(src, Len(src))
    IN  Call("from_iter", <<src>>, out, FromIterCaps(src, Len(out.deq)))

Get(i)        == DoGet(i) /\ UNCHANGED scenario
Swap(i, j)    == DoSwap(i, j) /\ UNCHANGED scenario
Capacity      == DoCapacity /\ UNCHANGED scenario
Reserve(n)    == DoReserve(n) /\ UNCHANGED scenario
Iter          == DoIter /\ UNCHANGED scenario
LenOf         == DoLen /\ UNCHANGED scenario
IsEmpty       == DoIsEmpty /\ UNCHANGED scenario
Range(r)      == DoRange(r) /\ UNCHANGED scenario
Clear         == DoClear /\ UNCHANGED scenario
Contains(x)   == DoContains(x) /\ UNCHANGED scenario
Peek          == DoPeek /\ UNCHANGED scenario
Pop           == DoPop /\ UNCHANGED scenario
Remove(i)     == DoRemove(i) /\ UNCHANGED scenario
Push(v)       == DoPush(v) /\ UNCHANGED scenario
Index(i)      == DoIndex(i) /\ UNCHANGED scenario
Extend(src)   == DoExtend(src) /\ UNCHANGED scenario
FromIter(src) == DoFromIter(src) /\ UNCHANGED scenario

Next ==
    \/ \E i \in Indices : Get(i)
    \/ \E i, j \in Indices : Swap(i, j)
    \/ Capacity
    \/ \E n \in Hints : Reserve(n)
    \/ Iter
    \/ LenOf
    \/ IsEmpty
    \/ \E s \in StartBounds, e \in EndBounds : Range(<<s, e>>)
    \/ Clear
    \/ \E x \in Values : Contains(x)
    \/ Peek
    \/ Pop
    \/ \E i \in Indices : Remove(i)
    \/ \E v \in Values : Push(v)
    \/ \E i \in Indices : Index(i)
    \/ \E src \in Sources : Extend(src)
    \/ \E src \in Sources : FromIter(src)

Spec == Init /\ [][Next]_vars

\* ------------------------------------------------- the PushPop scenario
\* A queue is created, some values are pushed (duplicates allowed), and then
\* elements are taken out with pop and remove.  pushed and taken log the calls.
InitPushPop ==
    /\ InitQueue
    /\ pushed = << >>
    /\ taken = << >>
    /\ phase = "push"
    /\ NoHistory
    /\ NoTwin

ScenarioPush(v) ==
    /\ phase = "push"
    /\ Len(pushed) < MaxPush
    /\ DoPush(v)
    /\ pushed' = Append(pushed, v)
    /\ UNCHANGED <<taken, phase, history, twin>>

\* phase "pop": only pop has been called since the pushes
ScenarioPop ==
    /\ phase \in {"push", "pop", "mixed"}
    /\ DoPop
    /\ taken' = taken \o ret'
    /\ phase' = IF phase = "mixed" THEN "mixed" ELSE "pop"
    /\ UNCHANGED <<pushed, history, twin>>

ScenarioRemove(i) ==
    /\ phase \in {"push", "pop", "mixed"}
    /\ DoRemove(i)
    /\ taken' = taken \o ret'
    /\ phase' = "mixed"
    /\ UNCHANGED <<pushed, history, twin>>

NextPushPop ==
    \/ \E v \in Values : ScenarioPush(v)
    \/ ScenarioPop
    \/ \E i \in Indices : ScenarioRemove(i)

SpecPushPop == InitPushPop /\ [][NextPushPop]_vars

\* ------------------------------------------------- the History scenario
\* Any calls of push, extend, pop, remove, clear and peek (no swap).  The
\* history variables are kept from the arguments of the calls and the values
\* they return, never from deq or set.
InitHistory ==
    /\ InitQueue
    /\ NoLogs
    /\ NoHistory
    /\ NoTwin

\* the history after push(v), as the record [live, before, gone]
Pushed(h, v) ==
    [live   |-> h.live \cup {v},
     before |-> IF v \in h.live THEN h.before
                ELSE h.before \cup {<<a, v>> : a \in h.live},
     gone   |-> h.gone \ {v}]

RECURSIVE PushedAll(_, _)
PushedAll(h, s) == IF s = << >> THEN h ELSE PushedAll(Pushed(h, Head(s)), Tail(s))

\* the history after the values of S left the queue
Left(h, S) ==
    [live   |-> h.live \ S,
     before |-> {p \in h.before : p[1] \notin S /\ p[2] \notin S},
     gone   |-> h.gone \cup S]

Record(h, again, emptied) ==
    /\ live' = h.live
    /\ before' = h.before
    /\ gone' = h.gone
    /\ readmit' = again
    /\ cleared' = emptied
    /\ UNCHANGED <<logs, twin>>

now == [live |-> live, before |-> before, gone |-> gone]

HistoryPush(v)     == DoPush(v) /\ Record(Pushed(now, v), v \in gone, {})
HistoryExtend(src) == DoExtend(src) /\ Record(PushedAll(now, src), FALSE, {})
HistoryPop         == DoPop /\ Record(Left(now, Elems(ret')), FALSE, {})
HistoryRemove(i)   == DoRemove(i) /\ Record(Left(now, Elems(ret')), FALSE, {})
HistoryClear       == DoClear /\ Record(Left(now, live), FALSE, live)
HistoryPeek        == DoPeek /\ Record(now, FALSE, {})

NextHistory ==
    \/ \E v \in Values : HistoryPush(v)
    \/ \E src \in Sources : HistoryExtend(src)
    \/ HistoryPop
    \/ \E i \in Indices : HistoryRemove(i)
    \/ HistoryClear
    \/ HistoryPeek

SpecHistory == InitHistory /\ [][NextHistory]_vars

\* ---------------------------------------------------- the Twin scenario
\* Two queues, the first made by with_capacity(hint) and the second (twin) by
\* new(), are given the same calls; each has its own capacity.
InitTwin ==
    /\ InitQueue
    /\ op = "with_capacity"
    /\ NoLogs
    /\ NoHistory
    /\ \E c \in 0..MaxCap :
          twin = [deq |-> new.deq, set |-> new.set, cap |-> c, ret |-> Unit, panic |-> FALSE]

\* what the call `name(args)` hands back on queue q
Outcome(name, args, q) ==
    CASE name = "get"      -> Ok(q, get(q, args[1]))
      [] name = "reserve"  -> Ok(q, Unit)
      [] name = "iter"     -> Ok(q, iter(q))
      [] name = "len"      -> Ok(q, len(q))
      [] name = "is_empty" -> Ok(q, is_empty(q))
      [] name = "clear"    -> clear(q)
      [] name = "contains" -> Ok(q, contains(q, args[1]))
      [] name = "peek"     -> Ok(q, peek(q))
      [] name = "pop"      -> pop(q)
      [] name = "remove"   -> remove(q, args[1])
      [] name = "push"     -> push(q, args[1])

\* the capacities the call may leave a queue of capacity c with
OutcomeCaps(name, args, c, q, out) ==
    CASE name = "push"    -> Grow(c, Len(out.deq))
      [] name = "reserve" -> reserve(c, Len(q.deq), args[1])
      [] OTHER            -> {c}

\* the twin gets the call the first queue just got
SameCall ==
    LET q   == [deq |-> twin.deq, set |-> twin.set]
        out == Outcome(op', arg', q)
    IN  /\ \E c \in OutcomeCaps(op', arg', twin.cap, q, out) :
              twin' = [deq |-> out.deq, set |-> out.set, cap |-> c,
                       ret |-> out.ret, panic |-> out.panic]
        /\ UNCHANGED <<logs, history>>

TwinGet(i)      == DoGet(i) /\ SameCall
TwinReserve(n)  == DoReserve(n) /\ SameCall
TwinIter        == DoIter /\ SameCall
TwinLen         == DoLen /\ SameCall
TwinIsEmpty     == DoIsEmpty /\ SameCall
TwinClear       == DoClear /\ SameCall
TwinContains(x) == DoContains(x) /\ SameCall
TwinPeek        == DoPeek /\ SameCall
TwinPop         == DoPop /\ SameCall
TwinRemove(i)   == DoRemove(i) /\ SameCall
TwinPush(v)     == DoPush(v) /\ SameCall

NextTwin ==
    \/ \E i \in Indices : TwinGet(i)
    \/ \E n \in Hints : TwinReserve(n)
    \/ TwinIter
    \/ TwinLen
    \/ TwinIsEmpty
    \/ TwinClear
    \/ \E x \in Values : TwinContains(x)
    \/ TwinPeek
    \/ TwinPop
    \/ \E i \in Indices : TwinRemove(i)
    \/ \E v \in Values : TwinPush(v)

SpecTwin == InitTwin /\ [][NextTwin]_vars

\* ------------------------------------------------------------- claims
Distinct(s) == \A i, j \in 1..Len(s) : i # j => s[i] # s[j]
Positions(q) == 0..(len(q) - 1)

\* C1: in every reachable state the membership set holds exactly the values
\* stored in the sequence, the two have the same length, and contains(v) is
\* true iff v is at some index below len().
SetMatchesDeq ==
    /\ set = Elems(deq)
    /\ Len(deq) = Cardinality(set)
    /\ \A v \in Values : contains(self, v) <=> \E i \in Positions(self) : get(self, i) = Some(v)

\* a remove that took an element out of the middle, two elements left
SetMatchesDeqWitness ==
    /\ op = "remove"
    /\ arg[1] = 1
    /\ ret # None
    /\ Len(deq) = 2
    /\ set = Elems(deq)

\* C2: in every reachable state no two positions of the sequence hold the
\* same value.
NoDuplicates ==
    \A i, j \in Positions(self) : i # j => get(self, i) # get(self, j)

\* an extend whose source repeats a value already queued
NoDuplicatesWitness ==
    /\ op = "extend"
    /\ Len(arg[1]) = 2
    /\ arg[1][1] = arg[1][2]
    /\ Len(deq) >= 2
    /\ deq[1] = arg[1][1]

\* C3: from an empty queue, after pushing pairwise-distinct values, repeated
\* pop returns them in the order pushed, and the pop after the last of them
\* returns None.
FifoOrder ==
    (phase = "pop" /\ Distinct(pushed)) =>
        /\ Len(taken) <= Len(pushed)
        /\ taken = SubSeq(pushed, 1, Len(taken))
        /\ ret = None => taken = pushed

\* MaxVal distinct values pushed, all popped, and one more pop returned None
FifoOrderWitness ==
    /\ phase = "pop"
    /\ Distinct(pushed)
    /\ Len(pushed) = MaxVal
    /\ taken = pushed
    /\ ret = None

\* C4: from an empty queue, after any pushes (duplicates allowed) len() is the
\* number of distinct values pushed, and contains(v) is true iff v was pushed
\* and has not been popped or removed since.
Uniqueness ==
    /\ phase = "push" => len(self) = Cardinality(Elems(pushed))
    /\ \A v \in Values :
          contains(self, v) <=> (v \in Elems(pushed) /\ v \notin Elems(taken))

\* a value pushed twice, another value taken out again
UniquenessWitness ==
    /\ phase \in {"pop", "mixed"}
    /\ ~Distinct(pushed)
    /\ taken # << >>
    /\ \E v \in Values : contains(self, v)
    /\ \E v \in Elems(pushed) : ~contains(self, v)

\* C5: push(v) of a value already contained changes nothing (len, the set,
\* the order, get at every index); push(v) of a new value keeps indices
\* 0..len()-1, puts v at index old len() and adds exactly 1 to len().
PushEffect ==
    [][op' = "push" =>
        LET v == arg'[1]
        IN  /\ ~panicked'
            /\ IF contains(self, v)
               THEN /\ len(self') = len(self)
                    /\ set' = set
                    /\ iter(self') = iter(self)
                    /\ \A i \in Indices : get(self', i) = get(self, i)
               ELSE /\ len(self') = len(self) + 1
                    /\ \A i \in Positions(self) : get(self', i) = get(self, i)
                    /\ get(self', len(self)) = Some(v)
                    /\ contains(self', v)]_vars

\* a push of a value that was already queued, and not at the back
PushEffectWitness ==
    /\ op = "push"
    /\ contains(self, arg[1])
    /\ Len(deq) >= 2
    /\ deq[Len(deq)] # arg[1]

\* C6: pop() on a non-empty queue returns the element at index 0, the value
\* peek() returned just before, removes it from the sequence and the set,
\* takes 1 off len(), and moves every other element from index j+1 to j.
PopEffect ==
    [][(op' = "pop" /\ ~is_empty(self)) =>
        /\ ~panicked'
        /\ ret' = get(self, 0)
        /\ ret' = peek(self)
        /\ op = "peek" => ret' = ret
        /\ ~contains(self', ret'[1])
        /\ set' = set \ {ret'[1]}
        /\ len(self') = len(self) - 1
        /\ \A j \in Positions(self') : get(self', j) = get(self, j + 1)]_vars

\* a pop that returned an element and left two behind
PopEffectWitness ==
    /\ op = "pop"
    /\ ret # None
    /\ Len(deq) = 2
    /\ ~contains(self, ret[1])

\* C7: remove(i) with i < len() returns the element at index i, takes 1 off
\* len(), makes contains of it false, leaves get(j) for j < i as it was, and
\* get(j) for j >= i then returns what was at j+1.
RemoveEffect ==
    [][(op' = "remove" /\ arg'[1] < len(self)) =>
        LET i == arg'[1]
        IN  /\ ~panicked'
            /\ ret' = get(self, i)
            /\ len(self') = len(self) - 1
            /\ ~contains(self', ret'[1])
            /\ set' = set \ {ret'[1]}
            /\ \A j \in Indices : j < i => get(self', j) = get(self, j)
            /\ \A j \in Indices : j >= i => get(self', j) = get(self, j + 1)]_vars

\* remove(0) of the front of a full queue: every other element moved down
RemoveEffectWitness ==
    /\ op = "remove"
    /\ arg[1] = 0
    /\ ret # None
    /\ Len(deq) = MaxVal - 1

\* the bounds of a range call, as VecDeque::range reads them
RangeStart(r) == range_start(start_bound(r))
RangeEnd(r)   == range_end(end_bound(r), len(self))

BoundBeyond(r, n) ==
    \/ start_bound(r)[1] # "Unbounded" /\ start_bound(r)[2] > n
    \/ end_bound(r)[1] # "Unbounded" /\ end_bound(r)[2] > n

EmptyPopPeek ==
    [][/\ (op' \in {"pop", "peek"} /\ is_empty(self)) =>
            (~panicked' /\ ret' = None /\ deq' = << >> /\ set' = {} /\ is_empty(self'))
       /\ (op \in {"pop", "peek"} /\ op' = "push") =>
            (ret = None => self' = [deq |-> <<arg'[1]>>, set |-> {arg'[1]}])]_vars

\* a pop that found the queue empty
EmptyPopPeekWitness ==
    /\ op = "pop"
    /\ ret = None
    /\ ~panicked
    /\ is_empty(self)
    /\ set = {}

\* C11: queue[index] returns the element get(index) returns whenever index <
\* len(), panics whenever index >= len() (queue[0] on an empty queue
\* included), and never changes the queue.
StrictIndex ==
    [][op' = "index" =>
        /\ self' = self
        /\ arg'[1] < len(self) => (~panicked' /\ Some(ret') = get(self, arg'[1]))
        /\ arg'[1] >= len(self) => panicked']_vars

\* queue[i] with i = len() on a queue that holds elements
StrictIndexWitness ==
    /\ op = "index"
    /\ panicked
    /\ deq # << >>
    /\ arg[1] = len(self)

\* the first occurrence of every value of s, in the order of s
RECURSIVE FirstOccurrences(_)
FirstOccurrences(s) ==
    IF s = << >> THEN << >>
    ELSE LET front == SubSeq(s, 1, Len(s) - 1)
             last  == s[Len(s)]
         IN  IF last \in Elems(front) THEN FirstOccurrences(front)
             ELSE Append(FirstOccurrences(front), last)

\* the queue after push(s[1]), push(s[2]), ... on q
RECURSIVE PushEach(_, _)
PushEach(q, s) ==
    IF s = << >> THEN [deq |-> q.deq, set |-> q.set]
    ELSE LET out == push(PushEach(q, SubSeq(s, 1, Len(s) - 1)), s[Len(s)])
         IN  [deq |-> out.deq, set |-> out.set]

\* C13: from_iter(source) gives the queue that push of each source element,
\* in source order, gives on an empty queue; extend(source) gives the queue
\* the same pushes give on the queue it is called on; a repeated source
\* element stays where its first occurrence put it.
BulkIsRepeatedPush ==
    [][/\ op' = "extend" =>
            /\ ~panicked'
            /\ self' = PushEach(self, arg'[1])
            /\ deq' = deq \o FirstOccurrences(SelectSeq(arg'[1], LAMBDA x : ~contains(self, x)))
       /\ op' = "from_iter" =>
            /\ ~panicked'
            /\ self' = PushEach(new, arg'[1])
            /\ deq' = FirstOccurrences(arg'[1])
            /\ set' = Elems(arg'[1])]_vars

\* the documented scenario: from_iter of [5, 5, 7, 5, 9] gives the order [5, 7, 9]
BulkIsRepeatedPushWitness ==
    /\ op = "from_iter"
    /\ arg[1] = CollapseSource
    /\ deq = <<1, 2, 3>>
    /\ set = {1, 2, 3}

\* C15: swap(i, j) with i < len() and j < len() exchanges the elements at i
\* and j and leaves the rest as it was: the set, len(), get(k) for every other
\* k; the set still matches the sequence afterwards.
SwapEffect ==
    [][(op' = "swap" /\ arg'[1] < len(self) /\ arg'[2] < len(self)) =>
        LET i == arg'[1]
            j == arg'[2]
        IN  /\ ~panicked'
            /\ get(self', i) = get(self, j)
            /\ get(self', j) = get(self, i)
            /\ \A k \in Indices \ {i, j} : get(self', k) = get(self, k)
            /\ set' = set
            /\ len(self') = len(self)
            /\ set' = Elems(deq')
            /\ Len(deq') = Cardinality(set')]_vars

\* a swap of the two ends of a full queue (the middle element stays)
SwapEffectWitness ==
    /\ op = "swap"
    /\ ~panicked
    /\ arg = <<0, MaxVal - 1>>
    /\ Len(deq) = MaxVal
    /\ deq[1] > deq[MaxVal]

Observers == {"peek", "get", "contains", "len", "is_empty", "iter", "range"}

\* C17: peek, get, contains, len, is_empty, iter and range leave the sequence
\* and the set as they were; peek() returns get(0), None iff is_empty();
\* is_empty() is true iff len() = 0; iter() yields get(0), ..., get(len()-1)
\* in that order, on every call.
ObserversReadOnly ==
    [][/\ op' \in Observers => self' = self
       /\ op' = "peek" => (~panicked' /\ ret' = get(self, 0) /\ (ret' = None <=> is_empty(self)))
       /\ op' = "is_empty" => (~panicked' /\ (ret' <=> len(self) = 0))
       /\ op' = "len" => (~panicked' /\ ret' = Cardinality(Positions(self)))
       /\ op' = "iter" =>
            /\ ~panicked'
            /\ Len(ret') = len(self)
            /\ \A i \in Positions(self) : Some(ret'[i + 1]) = get(self, i)
            /\ op = "iter" => ret' = ret]_vars

\* a peek at a queue of several elements
ObserversReadOnlyWitness ==
    /\ op = "peek"
    /\ Len(deq) = MaxVal
    /\ ret = Some(deq[1])

\* C19: pop() and remove(0) are interchangeable in every reachable state,
\* empty or not: the call made returns what the other would have returned
\* and leaves the sequence and the set the other would have left.
PopIsRemoveFront ==
    [][/\ op' = "pop" =>
            /\ ret' = remove(self, 0).ret
            /\ deq' = remove(self, 0).deq
            /\ set' = remove(self, 0).set
            /\ panicked' = remove(self, 0).panic
       /\ (op' = "remove" /\ arg'[1] = 0) =>
            /\ ret' = pop(self).ret
            /\ deq' = pop(self).deq
            /\ set' = pop(self).set
            /\ panicked' = pop(self).panic]_vars

\* remove(0) took the front of a queue of several elements, as pop would have
PopIsRemoveFrontWitness ==
    /\ op = "remove"
    /\ arg[1] = 0
    /\ ret # None
    /\ Len(deq) >= 2
    /\ pop(self) = remove(self, 0)

\* C12: after clear(), from any state, len() = 0, is_empty() is true,
\* contains(v) is false for every v, pop() and peek() return None, and a
\* push(v) that follows, of a value held before or not, puts v at index 0.
ClearResets ==
    [][/\ op' = "clear" =>
            /\ ~panicked'
            /\ len(self') = 0
            /\ is_empty(self')
            /\ \A v \in Values : ~contains(self', v)
            /\ pop(self').ret = None
            /\ peek(self') = None
       /\ (op = "clear" /\ op' \in {"pop", "peek"}) => (~panicked' /\ ret' = None)
       /\ (op = "clear" /\ op' = "push") =>
            (get(self', 0) = Some(arg'[1]) /\ contains(self', arg'[1]))]_vars

\* a clear of a queue that held every value
ClearResetsWitness ==
    /\ op = "clear"
    /\ cleared = Values
    /\ is_empty(self)
    /\ \A v \in cleared : ~contains(self, v)

\* C14: without swap, of two values both present, a is at a lower index than
\* b iff the push that inserted a was made before the push that inserted b;
\* a push of a value already present reorders nothing.
InsertionOrder ==
    \A a, b \in Values :
        (\E i, j \in Positions(self) : i < j /\ get(self, i) = Some(a) /\ get(self, j) = Some(b))
            <=> <<a, b>> \in before

\* two elements, the front inserted before the back, after a push of the
\* front value, which was already present
InsertionOrderWitness ==
    /\ op = "push"
    /\ ~readmit
    /\ gone # {}
    /\ Len(deq) = MaxVal - 1
    /\ deq[1] = arg[1]
    /\ deq[1] > deq[2]
    /\ <<deq[1], deq[2]>> \in before

\* C18: a value that left the queue through pop, remove or clear is not
\* contained any more, and a later push of it appends it at index old len(),
\* behind every element present, and makes contains of it true again.
Readmission ==
    [][(op' = "push" /\ arg'[1] \in gone) =>
        LET v == arg'[1]
        IN  /\ ~panicked'
            /\ ~contains(self, v)
            /\ len(self') = len(self) + 1
            /\ get(self', len(self)) = Some(v)
            /\ \A i \in Positions(self) : get(self', i) = get(self, i)
            /\ contains(self', v)]_vars

\* a value that had left was pushed again and sits behind another element
ReadmissionWitness ==
    /\ op = "push"
    /\ readmit
    /\ Len(deq) >= 2
    /\ deq[Len(deq)] = arg[1]
    /\ contains(self, arg[1])

\* the queue made by with_capacity and the one made by new() hold the same
\* elements and members, and their last calls handed back the same
TwinsAgree ==
    /\ twin.deq = deq
    /\ twin.set = set
    /\ twin.ret = ret
    /\ twin.panic = panicked

\* C16: a queue made by with_capacity(n) is empty and, given the calls a queue
\* made by new() is given, returns the same from every one of them (len,
\* is_empty, contains, get, peek, pop, remove, iter) and holds the same
\* elements in the same order; reserve(n) changes neither the sequence nor
\* the set.
CapacityUnobservable ==
    /\ (is_empty(self) /\ set = {} /\ TwinsAgree)
    /\ [][/\ TwinsAgree'
          /\ op' = "reserve" => (~panicked' /\ self' = self)]_vars

\* the two queues have different capacities and pop just returned the same
\* element from both
CapacityUnobservableWitness ==
    /\ op = "pop"
    /\ ret # None
    /\ twin.ret = ret
    /\ twin.cap # cap
    /\ Len(deq) >= 1

====
